---- MODULE Spec2Model ----
(***************************************************************************)
(* Model of the startup evaluation pipeline of agnets_main.py: the agent   *)
(* registry (handoffs, tools, guardrails), one run of the orchestrator     *)
(* agent through Runner.run, and the driver evaluate_startup_gradio that   *)
(* runs the orchestrator and then the risk finder.                         *)
(*                                                                         *)
(* The language model is the environment: every inference call returns a   *)
(* nondeterministic response (a text, a handoff, a boolean verdict or a    *)
(* failure).  Runner.run follows the agents library: input guardrails of   *)
(* the starting agent run concurrently with its first turn, a handoff      *)
(* makes the target the current agent, and the output guardrails that run  *)
(* are those of the agent that produced the final output.                  *)
(***************************************************************************)
EXTENDS Naturals, Sequences, FiniteSets

\* ---------------------------------------------------------------- bounds
\* Number of distinct non-empty texts an inference call may return.
MaxText == 2

\* Number of turns of one run in which the model may call tools.
MaxToolTurns == 2

\* Number of calls of the driver that are in flight together.
NumCalls == 2

TextNames == <<"t1", "t2", "t3", "t4">>

\* Free texts the language model can produce ("" is the empty output).
Texts == {""} \cup {TextNames[i] : i \in 1..MaxText}

\* Submissions typed into the form ("" is the empty submission).
Inputs == {"", "s1"}

\* ------------------------------------------------------------- registry
GuardrailAgents ==
    { "in_guardrail_agent", "bias_in_product_eval_agent",
      "bias_in_team_eval_agent", "out_pii_or_poli_guardrail_agent",
      "hallucination_guardrail_agent",
      "over_extreme_langauge_guardrail_agent", "bias_guardrail_agent" }

LeafEvaluators == {"product_eval_agent", "market_eval_agent", "team_eval_agent"}

ImprovementSubAgents ==
    {"differentiation_analyzer_agent", "vision_agent", "scalability_agent"}

Agents ==
    { "orchestrator_agent", "startup_improvement_agent", "risk_finder_agent",
      "startup_eval_agent" }
    \cup LeafEvaluators \cup ImprovementSubAgents \cup GuardrailAgents

InputGuardrailNames == {"pii_and_poli_guardrail"}

OrchestratorOutputGuardrails ==
    { "sens_content_guardrail", "hallucination_output_guardrail",
      "extreme_language_guardrail", "bias_detection_guardrail" }

LeafOutputGuardrails == {"bias_in_product_eval", "bias_in_team_eval"}

Guardrails ==
    InputGuardrailNames \cup OrchestratorOutputGuardrails \cup LeafOutputGuardrails

\* The agent a guardrail function runs (Runner.run(<agent>, input, ...)).
BackingAgent(g) ==
    CASE g = "pii_and_poli_guardrail"         -> "in_guardrail_agent"
      [] g = "bias_in_product_eval"           -> "bias_in_product_eval_agent"
      [] g = "bias_in_team_eval"              -> "bias_in_team_eval_agent"
      [] g = "sens_content_guardrail"         -> "out_pii_or_poli_guardrail_agent"
      [] g = "hallucination_output_guardrail" -> "hallucination_guardrail_agent"
      [] g = "extreme_language_guardrail"     -> "over_extreme_langauge_guardrail_agent"
      [] g = "bias_detection_guardrail"       -> "bias_guardrail_agent"

\* The boolean field of the output_type of each guardrail agent.
OutputTypeField(a) ==
    CASE a = "in_guardrail_agent"                    -> "political_and_pii"
      [] a = "bias_in_product_eval_agent"            -> "product_eval_bias"
      [] a = "bias_in_team_eval_agent"               -> "team_eval_bias"
      [] a = "out_pii_or_poli_guardrail_agent"       -> "sens_cont"
      [] a = "hallucination_guardrail_agent"         -> "hallucination"
      [] a = "over_extreme_langauge_guardrail_agent" -> "extreme_wording"
      [] a = "bias_guardrail_agent"                  -> "bias"

\* The field of result.final_output a guardrail function reports as
\* tripwire_triggered.
FieldRead(g) ==
    CASE g = "pii_and_poli_guardrail"         -> "political_and_pii"
      [] g = "bias_in_product_eval"           -> "product_eval_bias"
      [] g = "bias_in_team_eval"              -> "team_eval_bias"
      [] g = "sens_content_guardrail"         -> "sens_cont"
      [] g = "hallucination_output_guardrail" -> "hallucination"
      [] g = "extreme_language_guardrail"     -> "extreme_wording"
      [] g = "bias_detection_guardrail"       -> "bias"

\* A registry in which the improvement sub-agents hand back to the
\* orchestrator.
HandoffsBackToOrchestrator(a) ==
    CASE a = "orchestrator_agent"        -> {"startup_improvement_agent"}
      [] a = "startup_improvement_agent" -> ImprovementSubAgents
      [] a \in ImprovementSubAgents      -> {"orchestrator_agent"}
      [] OTHER                           -> {}

\* A registry in which the orchestrator may also hand off to the evaluator.
HandoffsWithEval(a) ==
    CASE a = "orchestrator_agent" ->
             {"startup_improvement_agent", "startup_eval_agent"}
      [] a = "startup_improvement_agent" -> ImprovementSubAgents
      [] OTHER                           -> {}

\* handoffs=[...] of each agent.
Handoffs(a) ==
    CASE a = "orchestrator_agent"        -> {"startup_improvement_agent"}
      [] a = "startup_improvement_agent" -> ImprovementSubAgents
      [] OTHER                           -> {}

\* An agent whose tools are all run whatever the model selected.
ToolsToInvokeAll(S) == {"product_eval_agent", "market_eval_agent", "team_eval_agent"}

\* The tools run in a turn are the tools the model called in that turn.
ToolsToInvoke(S) == S

\* tools=[x.as_tool(...)] of each agent.
Tools(a) ==
    CASE a = "startup_eval_agent" -> LeafEvaluators
      [] OTHER                    -> {}

\* input_guardrails=[...] of each agent.
InputGuardrails(a) ==
    CASE a = "orchestrator_agent" -> InputGuardrailNames
      [] OTHER                    -> {}

\* A registry in which only the orchestrator has output guardrails.
OutputGuardrailsOrchestratorOnly(a) ==
    CASE a = "orchestrator_agent" -> OrchestratorOutputGuardrails
      [] OTHER                    -> {}

\* output_guardrails=[...] of each agent.
OutputGuardrails(a) ==
    CASE a = "orchestrator_agent" -> OrchestratorOutputGuardrails
      [] a = "product_eval_agent" -> {"bias_in_product_eval"}
      [] a = "team_eval_agent"    -> {"bias_in_team_eval"}
      [] OTHER                    -> {}

\* Every agent some agent may hand off to.
DelegationTargets == UNION {Handoffs(a) : a \in Agents}

\* The agents an agent can pass work to: its handoffs and its tools.
Edges(a) == Handoffs(a) \cup Tools(a)

ReachStep(S) == S \cup UNION {Edges(a) : a \in S}

RECURSIVE Closure(_)
Closure(S) == IF ReachStep(S) = S THEN S ELSE Closure(ReachStep(S))

\* The agents the driver runs: Runner.run(orchestrator_agent, ...) and
\* Runner.run(risk_finder_agent, ...).
EntryPoints == {"orchestrator_agent", "risk_finder_agent"}

\* Every agent reachable from the driver through handoffs and tools.
ReachableAgents == Closure(EntryPoints)

\* ------------------------------------------------------------ responses
\* Failures of an inference call: the provider call fails, or the result
\* does not validate against the agent's output_type.
Failures == {"InferenceFailure", "SchemaValidationFailure"}

\* What the backing agent of a guardrail can answer: its boolean field is
\* false ("pass") or true ("trip"), or the call fails.
GuardrailResponses == {"pass", "trip"} \cup Failures

NoAgent == "no_agent"
NoText == "no_value"

Pending == [kind |-> "pending", text |-> NoText, target |-> NoAgent]
FinalOutput(t) == [kind |-> "final", text |-> t, target |-> NoAgent]
HandoffTo(b) == [kind |-> "handoff", text |-> NoText, target |-> b]
ModelFails(f) == [kind |-> f, text |-> NoText, target |-> NoAgent]

\* The next steps one turn of agent a can end in: the model answers with a
\* final text, picks one of the agent's handoffs, or the call fails.
PossibleSteps(a) ==
    {FinalOutput(t) : t \in Texts}
    \cup {HandoffTo(b) : b \in Handoffs(a)}
    \cup {ModelFails("InferenceFailure")}

\* A run whose final_output is None.
AbsentOutput == "<None>"

\* What the risk finder's single inference call can end in.
RiskResponses == Texts \cup {AbsentOutput} \cup {"InferenceFailure"}

\* ----------------------------------------------------------------- state
VARIABLES
    pc,            \* position of evaluate_startup_gradio
    user_input,    \* the submission
    riskStub,      \* what the risk finder's inference call answers for it
    currentAgent,  \* current agent of the orchestrator run
    invoked,       \* agents whose inference call has been started
    gstate,        \* per guardrail: idle, running, cancelled or its response
    turnResult,    \* first turn's next step while the input guardrails run
    final_output,  \* final output of the orchestrator run
    producer,      \* the agent that produced final_output
    exception,     \* the exception Runner.run raised, if any
    outcome,       \* what evaluate_startup_gradio returned or raised
    selected,      \* tools the model of startup_eval_agent has called
    evalTurn,      \* turn of the run of startup_eval_agent
    toolRuns,      \* per tool: its call in the current turn
    calls,         \* per concurrent call of the driver: its frame
    registry       \* the module-level agents and their guardrails

\* State of a run of startup_eval_agent.
evalVars == <<selected, evalTurn, toolRuns>>

\* State of concurrent calls of the driver.
concVars == <<calls, registry>>

vars == <<pc, user_input, riskStub, currentAgent, invoked, gstate, turnResult,
          final_output, producer, exception, outcome, evalVars, concVars>>

\* ---------------------------------------------------------------- driver
REJECT_MSG == "Guardrail tripped - sensitive content detected. Please revise your input."
NO_RISK_MSG == "No major risks flagged."

NoException == [type |-> "none", guardrail |-> "none"]

NoOutcome == [path |-> "none", feedback |-> NoText, risk |-> NoText, exc |-> "none"]

\* A driver that returns risks.final_output as it is.
RiskFieldRaw(r) == r

\* risks.final_output or "No major risks flagged."
RiskField(r) == IF r \in {"", AbsentOutput} THEN NO_RISK_MSG ELSE r

\* A driver that returns the pair in the wrong order.
ReturnOutcomeSwapped(feedback, r) ==
    [path |-> "return", feedback |-> RiskField(r), risk |-> feedback, exc |-> "none"]

\* return result.final_output, risks.final_output or "..."
ReturnOutcome(feedback, r) ==
    [path |-> "return", feedback |-> feedback, risk |-> RiskField(r), exc |-> "none"]

\* A driver whose except clause names the input tripwire instead.
RecoverInputTripwire(e) ==
    IF e.type = "InputGuardrailTripwireTriggered"
    THEN [path |-> "except", feedback |-> REJECT_MSG, risk |-> "", exc |-> "none"]
    ELSE [path |-> "raise", feedback |-> NoText, risk |-> NoText, exc |-> e.type]

\* A driver that puts the rejected text into the rejection message.
RecoverEchoesOutput(e) ==
    IF e.type = "OutputGuardrailTripwireTriggered"
    THEN [path |-> "except", feedback |-> final_output, risk |-> "", exc |-> "none"]
    ELSE [path |-> "raise", feedback |-> NoText, risk |-> NoText, exc |-> e.type]

\* The except clause of the driver: only OutputGuardrailTripwireTriggered is
\* caught; every other exception leaves evaluate_startup_gradio.
Recover(e) ==
    IF e.type = "OutputGuardrailTripwireTriggered"
    THEN [path |-> "except", feedback |-> REJECT_MSG, risk |-> "", exc |-> "none"]
    ELSE [path |-> "raise", feedback |-> NoText, risk |-> NoText, exc |-> e.type]

\* The guardrail category a feedback message names.
CategoryNamed(msg) ==
    IF msg = REJECT_MSG THEN "sens_content_guardrail" ELSE "none"

\* A guardrail function that reports the negation of the boolean.
GuardrailFunctionInverted(resp) ==
    CASE resp = "trip" -> "continue"
      [] resp = "pass" -> "tripwire"
      [] OTHER         -> "error"

\* A guardrail function that swallows a failing Runner.run and reports
\* tripwire_triggered = False.
GuardrailFunctionFailOpen(resp) ==
    CASE resp = "trip" -> "tripwire"
      [] OTHER         -> "continue"

\* A guardrail function: a failing Runner.run leaves the function as an
\* exception; otherwise tripwire_triggered is the backing agent's boolean.
GuardrailFunction(resp) ==
    CASE resp = "trip" -> "tripwire"
      [] resp = "pass" -> "continue"
      [] OTHER         -> "error"

\* The agents as constructed when the module is loaded.
InitialRegistry ==
    [a \in Agents |->
        [handoffs |-> Handoffs(a), tools |-> Tools(a),
         input_guardrails |-> InputGuardrails(a),
         output_guardrails |-> OutputGuardrails(a)]]

CallIds == 1..NumCalls

\* What Runner.run(orchestrator_agent, ...) ends in for the driver: it
\* returns a result with a final output, or raises.
RunReturns(t) == [kind |-> "returns", value |-> t]
RunRaises(e) == [kind |-> "raises", value |-> e]

RunResults ==
    {RunReturns(t) : t \in Texts}
    \cup {RunRaises(e) : e \in {"InputGuardrailTripwireTriggered",
                                "OutputGuardrailTripwireTriggered"} \cup Failures}

\* A call of the driver that has not started.
IdleCall ==
    [pc |-> "idle", orchStub |-> RunRaises("none"), riskStub |-> NoText,
     result |-> NoText, outcome |-> NoOutcome, overlapped |-> FALSE]

\* A tool that is not being called.
IdleTool == [status |-> "idle", text |-> NoText, result |-> NoText, error |-> "none"]

Init ==
    /\ pc = "idle"
    /\ user_input = NoText
    /\ riskStub = NoText
    /\ currentAgent = NoAgent
    /\ invoked = {}
    /\ gstate = [g \in Guardrails |-> "idle"]
    /\ turnResult = Pending
    /\ final_output = NoText
    /\ producer = NoAgent
    /\ exception = NoException
    /\ outcome = NoOutcome
    /\ selected = {}
    /\ evalTurn = 0
    /\ toolRuns = [t \in LeafEvaluators |-> IdleTool]
    /\ calls = [k \in CallIds |-> IdleCall]
    /\ registry = InitialRegistry

Running(G) == {g \in G : gstate[g] = "running"}

\* An exception leaves Runner.run inside the try block of the driver.
Raise(e) ==
    /\ exception' = e
    /\ outcome' = Recover(e)
    /\ pc' = "done"

\* Runner.run(orchestrator_agent) returned: the driver runs the risk finder.
OrchestratorReturns ==
    /\ pc' = "risk_finder"
    /\ invoked' = invoked \cup {"risk_finder_agent"}
    /\ UNCHANGED <<exception, outcome>>

\* The run loop acts on the next step of the current agent's turn.
ProcessStep(step) ==
    IF step.kind = "handoff"
    THEN /\ currentAgent' = step.target
         /\ invoked' = invoked \cup {step.target}
         /\ pc' = "turn"
         /\ UNCHANGED <<final_output, producer, exception, outcome>>
    ELSE /\ final_output' = step.text
         /\ producer' = currentAgent
         /\ UNCHANGED currentAgent
         /\ IF OutputGuardrails(currentAgent) = {}
            THEN OrchestratorReturns
            ELSE /\ pc' = "output_check"
                 /\ invoked' = invoked \cup
                        {BackingAgent(g) : g \in OutputGuardrails(currentAgent)}
                 /\ UNCHANGED <<exception, outcome>>

\* The output guardrails started when the step is a final output.
StartedBy(step) ==
    IF step.kind = "final" THEN OutputGuardrails(currentAgent) ELSE {}

\* evaluate_startup_gradio(user_input) is called: Runner.run starts the input
\* guardrails of the starting agent and its first turn together.
Submit(i, rs) ==
    /\ pc = "idle"
    /\ UNCHANGED concVars
    /\ pc' = "turn1"
    /\ user_input' = i
    /\ riskStub' = rs
    /\ currentAgent' = "orchestrator_agent"
    /\ invoked' = {"orchestrator_agent"}
           \cup {BackingAgent(g) : g \in InputGuardrails("orchestrator_agent")}
    /\ gstate' = [g \in Guardrails |->
                    IF g \in InputGuardrails("orchestrator_agent")
                    THEN "running" ELSE "idle"]
    /\ turnResult' = Pending
    /\ UNCHANGED <<final_output, producer, exception, outcome, evalVars>>

\* The backing agent of input guardrail g answers.
InputGuardrailReturns(g, resp) ==
    /\ pc = "turn1"
    /\ UNCHANGED concVars
    /\ g \in Running(InputGuardrailNames)
    /\ UNCHANGED <<user_input, riskStub, evalVars>>
    /\ CASE GuardrailFunction(resp) = "tripwire" ->
              /\ gstate' = [gstate EXCEPT ![g] = resp]
              /\ Raise([type |-> "InputGuardrailTripwireTriggered", guardrail |-> g])
              /\ UNCHANGED <<currentAgent, invoked, turnResult, final_output, producer>>
         [] GuardrailFunction(resp) = "error" ->
              /\ gstate' = [gstate EXCEPT ![g] = resp]
              /\ Raise([type |-> resp, guardrail |-> g])
              /\ UNCHANGED <<currentAgent, invoked, turnResult, final_output, producer>>
         [] OTHER ->
              IF turnResult = Pending \/ Running(InputGuardrailNames) # {g}
              THEN /\ gstate' = [gstate EXCEPT ![g] = resp]
                   /\ UNCHANGED <<pc, currentAgent, invoked, turnResult,
                                  final_output, producer, exception, outcome>>
              ELSE /\ gstate' = [h \in Guardrails |->
                                   IF h = g THEN resp
                                   ELSE IF h \in StartedBy(turnResult)
                                        THEN "running" ELSE gstate[h]]
                   /\ turnResult' = Pending
                   /\ ProcessStep(turnResult)

\* The model call of the current agent's turn answers.
ModelReturns(step) ==
    /\ pc \in {"turn1", "turn"}
    /\ UNCHANGED concVars
    /\ turnResult = Pending
    /\ step \in PossibleSteps(currentAgent)
    /\ UNCHANGED <<user_input, riskStub, evalVars>>
    /\ IF step.kind \in Failures
       THEN /\ Raise([type |-> step.kind, guardrail |-> "none"])
            /\ UNCHANGED <<currentAgent, invoked, gstate, turnResult,
                           final_output, producer>>
       ELSE IF Running(InputGuardrailNames) # {}
            THEN /\ turnResult' = step
                 /\ UNCHANGED <<pc, currentAgent, invoked, gstate, final_output,
                                producer, exception, outcome>>
            ELSE /\ gstate' = [h \in Guardrails |->
                                 IF h \in StartedBy(step) THEN "running"
                                 ELSE gstate[h]]
                 /\ UNCHANGED turnResult
                 /\ ProcessStep(step)

\* The backing agent of output guardrail g answers; results are taken in
\* the order the guardrails complete.
OutputGuardrailReturns(g, resp) ==
    /\ pc = "output_check"
    /\ UNCHANGED concVars
    /\ g \in Running(OutputGuardrails(producer))
    /\ UNCHANGED <<user_input, riskStub, currentAgent, turnResult,
                   final_output, producer, evalVars>>
    /\ CASE GuardrailFunction(resp) = "tripwire" ->
              /\ gstate' = [h \in Guardrails |->
                              IF h = g THEN resp
                              ELSE IF gstate[h] = "running" THEN "cancelled"
                                   ELSE gstate[h]]
              /\ Raise([type |-> "OutputGuardrailTripwireTriggered", guardrail |-> g])
              /\ UNCHANGED invoked
         [] GuardrailFunction(resp) = "error" ->
              /\ gstate' = [gstate EXCEPT ![g] = resp]
              /\ Raise([type |-> resp, guardrail |-> g])
              /\ UNCHANGED invoked
         [] OTHER ->
              /\ gstate' = [gstate EXCEPT ![g] = resp]
              /\ IF Running(OutputGuardrails(producer)) = {g}
                 THEN OrchestratorReturns
                 ELSE UNCHANGED <<pc, invoked, exception, outcome>>

\* The risk finder's inference call answers and the driver returns.
RiskFinderReturns ==
    /\ pc = "risk_finder"
    /\ UNCHANGED concVars
    /\ UNCHANGED <<user_input, riskStub, currentAgent, invoked, gstate,
                   turnResult, final_output, producer, evalVars>>
    /\ IF riskStub \in Failures
       THEN Raise([type |-> riskStub, guardrail |-> "none"])
       ELSE /\ outcome' = ReturnOutcome(final_output, riskStub)
            /\ pc' = "done"
            /\ UNCHANGED exception

Next ==
    \/ \E i \in Inputs, rs \in RiskResponses : Submit(i, rs)
    \/ \E g \in Guardrails, resp \in GuardrailResponses : InputGuardrailReturns(g, resp)
    \/ \E step \in PossibleSteps(currentAgent) : ModelReturns(step)
    \/ \E g \in Guardrails, resp \in GuardrailResponses : OutputGuardrailReturns(g, resp)
    \/ RiskFinderReturns

Spec == Init /\ [][Next]_vars

\* An inference call in flight answers.
InferenceReturns ==
    \/ \E g \in Guardrails, resp \in GuardrailResponses : InputGuardrailReturns(g, resp)
    \/ \E step \in PossibleSteps(currentAgent) : ModelReturns(step)
    \/ \E g \in Guardrails, resp \in GuardrailResponses : OutputGuardrailReturns(g, resp)
    \/ RiskFinderReturns

\* Every inference call eventually returns or fails.
SpecLive == Spec /\ WF_vars(InferenceReturns)

\* ------------------------------------------------ run of startup_eval_agent
\* What a tool returns to the calling agent when its run raised e.
ToolError(e) == "An error occurred while running the tool. Error: " \o e

\* A tool whose run returned its text to the calling agent.
ToolReturned(t) == [status |-> "returned", text |-> t, result |-> t, error |-> "none"]

\* A tool whose run raised e after generating text t (NoText: before).
ToolFailed(t, e) ==
    [status |-> "returned", text |-> t, result |-> ToolError(e), error |-> e]

\* When every tool called in the turn has returned, the next turn starts.
JoinTools ==
    IF \A t \in LeafEvaluators : toolRuns'[t].status \in {"idle", "returned"}
    THEN pc' = "eval_turn" /\ evalTurn' = evalTurn + 1
    ELSE UNCHANGED <<pc, evalTurn>>

\* Runner.run(startup_eval_agent, i): the agent has no input guardrails.
SubmitEval(i) ==
    /\ pc = "idle"
    /\ UNCHANGED concVars
    /\ pc' = "eval_turn"
    /\ user_input' = i
    /\ currentAgent' = "startup_eval_agent"
    /\ invoked' = {"startup_eval_agent"}
    /\ evalTurn' = 1
    /\ UNCHANGED <<riskStub, gstate, turnResult, final_output, producer,
                   exception, outcome, selected, toolRuns>>

\* The model of the current agent answers with calls of the tools S.
EvalModelCallsTools(S) ==
    /\ pc = "eval_turn"
    /\ UNCHANGED concVars
    /\ evalTurn <= MaxToolTurns
    /\ S # {}
    /\ S \subseteq Tools(currentAgent)
    /\ pc' = "eval_tools"
    /\ selected' = selected \cup S
    /\ invoked' = invoked \cup ToolsToInvoke(S)
    /\ toolRuns' = [t \in LeafEvaluators |->
                      IF t \in ToolsToInvoke(S)
                      THEN [status |-> "running", text |-> NoText,
                            result |-> NoText, error |-> "none"]
                      ELSE IdleTool]
    /\ gstate' = [g \in Guardrails |->
                    IF g \in LeafOutputGuardrails THEN "idle" ELSE gstate[g]]
    /\ UNCHANGED <<user_input, riskStub, currentAgent, turnResult, final_output,
                   producer, exception, outcome, evalTurn>>

\* The model of the current agent answers with its final output, or fails.
EvalModelReturns(step) ==
    /\ pc = "eval_turn"
    /\ UNCHANGED concVars
    /\ step \in PossibleSteps(currentAgent)
    /\ step.kind # "handoff"
    /\ pc' = "eval_done"
    /\ IF step.kind \in Failures
       THEN /\ exception' = [type |-> step.kind, guardrail |-> "none"]
            /\ UNCHANGED <<final_output, producer>>
       ELSE /\ final_output' = step.text
            /\ producer' = currentAgent
            /\ UNCHANGED exception
    /\ UNCHANGED <<user_input, riskStub, currentAgent, invoked, gstate,
                   turnResult, outcome, evalVars>>

\* The model of tool agent t answers: its run ends there, or its output
\* guardrails are started on the text.
ToolModelReturns(t, resp) ==
    /\ pc = "eval_tools"
    /\ UNCHANGED concVars
    /\ toolRuns[t].status = "running"
    /\ IF resp \in Failures
       THEN /\ toolRuns' = [toolRuns EXCEPT ![t] = ToolFailed(NoText, resp)]
            /\ UNCHANGED <<gstate, invoked>>
       ELSE IF OutputGuardrails(t) = {}
            THEN /\ toolRuns' = [toolRuns EXCEPT ![t] = ToolReturned(resp)]
                 /\ UNCHANGED <<gstate, invoked>>
            ELSE /\ toolRuns' = [toolRuns EXCEPT ![t] =
                        [status |-> "checking", text |-> resp,
                         result |-> NoText, error |-> "none"]]
                 /\ gstate' = [g \in Guardrails |->
                                 IF g \in OutputGuardrails(t) THEN "running"
                                 ELSE gstate[g]]
                 /\ invoked' = invoked \cup
                        {BackingAgent(g) : g \in OutputGuardrails(t)}
    /\ JoinTools
    /\ UNCHANGED <<user_input, riskStub, currentAgent, turnResult, final_output,
                   producer, exception, outcome, selected>>

\* The backing agent of output guardrail g of tool agent t answers.
ToolGuardrailReturns(t, g, resp) ==
    /\ pc = "eval_tools"
    /\ UNCHANGED concVars
    /\ toolRuns[t].status = "checking"
    /\ g \in Running(OutputGuardrails(t))
    /\ gstate' = [gstate EXCEPT ![g] = resp]
    /\ CASE GuardrailFunction(resp) = "tripwire" ->
              toolRuns' = [toolRuns EXCEPT ![t] =
                  ToolFailed(toolRuns[t].text, "OutputGuardrailTripwireTriggered")]
         [] GuardrailFunction(resp) = "error" ->
              toolRuns' = [toolRuns EXCEPT ![t] = ToolFailed(toolRuns[t].text, resp)]
         [] OTHER ->
              IF Running(OutputGuardrails(t)) = {g}
              THEN toolRuns' = [toolRuns EXCEPT ![t] = ToolReturned(toolRuns[t].text)]
              ELSE UNCHANGED toolRuns
    /\ JoinTools
    /\ UNCHANGED <<user_input, riskStub, currentAgent, invoked, turnResult,
                   final_output, producer, exception, outcome, selected>>

NextEval ==
    \/ \E i \in Inputs : SubmitEval(i)
    \/ \E S \in SUBSET LeafEvaluators : EvalModelCallsTools(S)
    \/ \E step \in PossibleSteps(currentAgent) : EvalModelReturns(step)
    \/ \E t \in LeafEvaluators, resp \in Texts \cup {"InferenceFailure"} :
          ToolModelReturns(t, resp)
    \/ \E t \in LeafEvaluators, g \in Guardrails, resp \in GuardrailResponses :
          ToolGuardrailReturns(t, g, resp)

\* One run of startup_eval_agent.
SpecEval == Init /\ [][NextEval]_vars

NextAll == Next \/ NextEval

\* One call of the driver or one run of startup_eval_agent.
SpecAll == Init /\ [][NextAll]_vars

\* ------------------------------------------------ concurrent driver calls
\* A driver that keeps result in a module-level global.
FrameShared(k) == 1

\* The frame that holds the local variables of call k.
Frame(k) == k

\* What one call of the driver, run alone, ends in when its orchestrator run
\* ends in run and its risk finder run answers risk.
DriverOutcome(run, risk) ==
    IF run.kind = "raises"
    THEN Recover([type |-> run.value, guardrail |-> "none"])
    ELSE IF risk \in Failures
         THEN Recover([type |-> risk, guardrail |-> "none"])
         ELSE ReturnOutcome(run.value, risk)

InFlight(k) == calls[k].pc \in {"orchestrator", "risk_finder"}

\* Call k of evaluate_startup_gradio starts and awaits the orchestrator run.
CallStarts(k, run, risk) ==
    /\ calls[k].pc = "idle"
    /\ calls' = [calls EXCEPT ![k] =
                    [pc |-> "orchestrator", orchStub |-> run, riskStub |-> risk,
                     result |-> NoText, outcome |-> NoOutcome,
                     overlapped |-> \E j \in CallIds \ {k} : InFlight(j)]]
    /\ UNCHANGED <<pc, user_input, riskStub, currentAgent, invoked, gstate,
                   turnResult, final_output, producer, exception, outcome,
                   evalVars, registry>>

\* The orchestrator run of call k ends: result is assigned and the risk
\* finder run is awaited, or the exception reaches the except clause.
OrchestratorRunEnds(k) ==
    /\ calls[k].pc = "orchestrator"
    /\ IF calls[k].orchStub.kind = "raises"
       THEN calls' = [calls EXCEPT
                ![k].pc = "done",
                ![k].outcome = Recover([type |-> calls[k].orchStub.value,
                                        guardrail |-> "none"])]
       ELSE calls' = [calls EXCEPT
                ![k].pc = "risk_finder",
                ![Frame(k)].result = calls[k].orchStub.value]
    /\ UNCHANGED <<pc, user_input, riskStub, currentAgent, invoked, gstate,
                   turnResult, final_output, producer, exception, outcome,
                   evalVars, registry>>

\* The risk finder run of call k ends and the call returns or raises.
RiskFinderRunEnds(k) ==
    /\ calls[k].pc = "risk_finder"
    /\ calls' = [calls EXCEPT
            ![k].pc = "done",
            ![k].outcome =
                IF calls[k].riskStub \in Failures
                THEN Recover([type |-> calls[k].riskStub, guardrail |-> "none"])
                ELSE ReturnOutcome(calls[Frame(k)].result, calls[k].riskStub)]
    /\ UNCHANGED <<pc, user_input, riskStub, currentAgent, invoked, gstate,
                   turnResult, final_output, producer, exception, outcome,
                   evalVars, registry>>

NextConc ==
    \/ \E k \in CallIds, run \in RunResults, risk \in RiskResponses :
          CallStarts(k, run, risk)
    \/ \E k \in CallIds : OrchestratorRunEnds(k)
    \/ \E k \in CallIds : RiskFinderRunEnds(k)

\* Calls of the driver interleaved at their await points.
SpecConc == Init /\ [][NextConc]_vars

TypeOK ==
    /\ pc \in {"idle", "turn1", "turn", "output_check", "risk_finder", "done",
               "eval_turn", "eval_tools", "eval_done"}
    /\ user_input \in Inputs \cup {NoText}
    /\ riskStub \in RiskResponses \cup {NoText}
    /\ currentAgent \in Agents \cup {NoAgent}
    /\ invoked \subseteq Agents
    /\ gstate \in [Guardrails -> {"idle", "running", "cancelled"} \cup GuardrailResponses]
    /\ producer \in Agents \cup {NoAgent}
    /\ final_output \in Texts \cup {NoText}
    /\ outcome.path \in {"none", "return", "except", "raise"}
    /\ selected \subseteq LeafEvaluators
    /\ evalTurn \in 0..(MaxToolTurns + 1)
    /\ \A t \in LeafEvaluators :
          toolRuns[t].status \in {"idle", "running", "checking", "returned"}

\* ---------------------------------------------------------------- claims
Done == pc = "done"

Returned == outcome.path \in {"return", "except"}

\* No inference call of the request failed: the orchestrator run completed
\* or was rejected by a guardrail.
NoFailure == exception.type \notin Failures /\ riskStub \notin Failures

\* C1: whenever the risk finder answers a non-empty text R for the
\* submission, the driver returns with risk = R, whether the orchestrator
\* run completed, was rejected by the input guardrail or was rejected by an
\* output guardrail.
C1_RiskAlwaysPopulated ==
    (Done /\ NoFailure /\ riskStub \in Texts \ {""})
        => (Returned /\ outcome.risk = riskStub)

\* C2: when the input guardrail triggers, the driver returns the rejection
\* message as feedback, no delegation target is invoked and no output
\* guardrail is evaluated.
C2_InputTripRejected ==
    (Done /\ gstate["pii_and_poli_guardrail"] = "trip") =>
        /\ Returned
        /\ outcome.feedback = REJECT_MSG
        /\ invoked \cap DelegationTargets = {}
        /\ \A g \in OrchestratorOutputGuardrails : gstate[g] = "idle"

\* C3: when any one of the four output guardrails of the orchestrator
\* triggers on the synthesized text, the driver returns the rejection message
\* and not the synthesized text, whatever the other three answered and in
\* whatever order they completed; and text synthesized by the orchestrator
\* is returned only after all four answered without triggering.
C3_AnyOutputTripRejects ==
    /\ (\E g \in OrchestratorOutputGuardrails : gstate[g] = "trip") =>
           /\ Done
           /\ outcome.path = "except"
           /\ outcome.feedback = REJECT_MSG
           /\ outcome.feedback # final_output
    /\ (Done /\ producer = "orchestrator_agent" /\ outcome.path = "return") =>
           \A g \in OrchestratorOutputGuardrails : gstate[g] = "pass"

C3_Witness ==
    /\ Done
    /\ gstate["bias_detection_guardrail"] = "trip"
    /\ gstate["sens_content_guardrail"] = "pass"
    /\ gstate["hallucination_output_guardrail"] = "cancelled"
    /\ final_output \in Texts \ {""}
    /\ outcome.feedback = REJECT_MSG

\* C4: a request that completes with the run's text as feedback has had
\* that text checked by all four output guardrails, none triggering, also
\* when the orchestrator delegated.
C4_CompletedWasOutputChecked ==
    (Done /\ outcome.path = "return") =>
        \A g \in OrchestratorOutputGuardrails : gstate[g] = "pass"

\* C5: the driver never raises: every request ends with two strings
\* returned.
C5_NeverRaises == Done => Returned

\* C6: once the backing inference call of a guardrail has failed, the
\* request is over without the run's text as feedback, and it ended in a
\* failure that is neither a return (clean pass or rejection message) nor a
\* tripwire exception.
C6_GuardrailFailureFailsClosed ==
    (\E g \in Guardrails : gstate[g] \in Failures) =>
        /\ Done
        /\ outcome.path = "raise"
        /\ outcome.exc \in Failures
        /\ outcome.feedback = NoText

C6_Witness ==
    /\ Done
    /\ gstate["pii_and_poli_guardrail"] = "pass"
    /\ gstate["sens_content_guardrail"] = "pass"
    /\ gstate["hallucination_output_guardrail"] \in Failures
    /\ final_output \in Texts \ {""}
    /\ outcome.path = "raise"

\* C7: in every request the risk finder's inference call is performed,
\* also when a guardrail of the orchestrator run triggers.
C7_RiskFinderAlwaysRuns ==
    (Done /\ NoFailure) => "risk_finder_agent" \in invoked

\* C8: when an output guardrail trips, the feedback names the category of
\* the guardrail that triggered.
C8_RejectionNamesGuardrail ==
    (Done /\ exception.type = "OutputGuardrailTripwireTriggered") =>
        CategoryNamed(outcome.feedback) = exception.guardrail

\* C9: a delegation target never produces the final output of the run:
\* control returns to the delegator, which produces it.
C9_DelegatorProducesFinalOutput == producer \notin DelegationTargets

\* C10: a request that completes with no guardrail triggering has invoked
\* the product, market and team evaluators.
C10_LeafEvaluatorsInvoked ==
    (Done /\ outcome.path = "return" /\ \A g \in Guardrails : gstate[g] # "trip")
        => LeafEvaluators \subseteq invoked

\* C11: when the risk finder's run returns an empty or absent output the
\* risk field is the fixed message "No major risks flagged."; when it
\* returns a non-empty output the risk field is that output unchanged.
C11_RiskFallbackMessage ==
    (Done /\ outcome.path = "return") =>
        /\ riskStub \in {"", AbsentOutput} => outcome.risk = NO_RISK_MSG
        /\ riskStub \in Texts \ {""} => outcome.risk = riskStub

C11_Witness ==
    /\ Done
    /\ outcome.path = "return"
    /\ riskStub = AbsentOutput
    /\ outcome.risk = NO_RISK_MSG
    /\ outcome.feedback \in Texts \ {""}

\* C16: when the input guardrail does not trigger and the orchestrator
\* selects no delegation target, the orchestrator's own text goes through
\* the four output guardrails and, none triggering and no call failing, the
\* request completes with that text as feedback.
C16_FallbackCompletes ==
    /\ (producer = "orchestrator_agent" /\ invoked \cap DelegationTargets = {}) =>
           /\ gstate["pii_and_poli_guardrail"] = "pass"
           /\ \A g \in OrchestratorOutputGuardrails : gstate[g] # "idle"
           /\ pc = "risk_finder" =>
                  \A g \in OrchestratorOutputGuardrails : gstate[g] = "pass"
    /\ ( /\ Done
         /\ producer = "orchestrator_agent"
         /\ NoFailure
         /\ \A g \in OrchestratorOutputGuardrails : gstate[g] = "pass" ) =>
           /\ outcome.path = "return"
           /\ outcome.feedback = final_output
           /\ exception = NoException

C16_Witness ==
    /\ Done
    /\ user_input = ""
    /\ producer = "orchestrator_agent"
    /\ invoked \cap DelegationTargets = {}
    /\ outcome.path = "return"
    /\ outcome.feedback = TextNames[1]
    /\ outcome.risk = TextNames[2]

\* C18: when an output guardrail trips, what the driver returns is one
\* fixed pair that does not depend on the rejected text nor contain it.
C18_RejectionIsFixedMessage ==
    exception.type = "OutputGuardrailTripwireTriggered" =>
        /\ outcome = [path |-> "except", feedback |-> REJECT_MSG,
                      risk |-> "", exc |-> "none"]
        /\ final_output \in Texts
        /\ REJECT_MSG \notin Texts

C18_Witness ==
    /\ Done
    /\ exception = [type |-> "OutputGuardrailTripwireTriggered",
                    guardrail |-> "hallucination_output_guardrail"]
    /\ final_output = TextNames[2]
    /\ outcome.feedback = REJECT_MSG

Acyclic == \A a \in Agents : a \notin Closure(Edges(a))

\* The terminal states a finished request is in.
TerminalStates ==
    {t \in {"COMPLETED", "REJECTED_INPUT", "REJECTED_OUTPUT", "FAILED"} :
        \/ t = "COMPLETED" /\ outcome.path = "return"
        \/ t = "REJECTED_INPUT" /\ exception.type = "InputGuardrailTripwireTriggered"
        \/ t = "REJECTED_OUTPUT" /\ exception.type = "OutputGuardrailTripwireTriggered"
        \/ t = "FAILED" /\ exception.type \in Failures}

\* C15: the graph of tool bindings and handoffs has no cycle, and every
\* request, its inference calls eventually returning or failing, eventually
\* ends, in exactly one of COMPLETED, REJECTED_INPUT, REJECTED_OUTPUT and
\* failure.
C15_AcyclicAndTerminates ==
    /\ []Acyclic
    /\ [](Done => Cardinality(TerminalStates) = 1)
    /\ [](pc # "done" => TerminalStates = {})
    /\ (pc # "idle") ~> Done

C15_Witness ==
    /\ Done
    /\ producer = "scalability_agent"
    /\ TerminalStates = {"COMPLETED"}

\* C12: within one run of startup_eval_agent an evaluator, and the bias
\* guardrail attached to it, is invoked only if the model called its tool;
\* when only the team tool was called, the product and market evaluators
\* and the product bias guardrail are never invoked.
C12_NoIncidentalFanOut ==
    /\ invoked \cap LeafEvaluators \subseteq selected
    /\ \A t \in LeafEvaluators :
          \/ t \in selected
          \/ /\ toolRuns[t] = IdleTool
             /\ \A g \in OutputGuardrails(t) :
                   gstate[g] = "idle" /\ BackingAgent(g) \notin invoked
    /\ selected = {"team_eval_agent"} =>
          invoked \cap {"product_eval_agent", "market_eval_agent",
                        "bias_in_product_eval_agent"} = {}

C12_Witness ==
    /\ pc = "eval_done"
    /\ selected = {"team_eval_agent"}
    /\ {"team_eval_agent", "bias_in_team_eval_agent"} \subseteq invoked
    /\ final_output \in Texts \ {""}

\* The output guardrail chain of the run of tool agent t ended that run.
ToolChainAborted(t) == toolRuns[t].error # "none" /\ toolRuns[t].text # NoText

\* C13: the text of the product and of the team evaluator is returned to
\* the calling agent only after the attached bias guardrail passed it; when
\* that guardrail triggers, the evaluator's run fails with the output
\* tripwire error and the text does not reach the calling agent; the market
\* evaluator has no guardrail and its text is returned as it is.
C13_LeafGuardrailBeforeReturn ==
    /\ OutputGuardrails("product_eval_agent") = {"bias_in_product_eval"}
    /\ OutputGuardrails("team_eval_agent") = {"bias_in_team_eval"}
    /\ OutputGuardrails("market_eval_agent") = {}
    /\ \A t \in LeafEvaluators :
          /\ toolRuns[t].result \in Texts =>
                /\ toolRuns[t].result = toolRuns[t].text
                /\ toolRuns[t].error = "none"
                /\ \A g \in OutputGuardrails(t) : gstate[g] = "pass"
          /\ (\E g \in OutputGuardrails(t) : gstate[g] = "trip") =>
                /\ toolRuns[t].status = "returned"
                /\ toolRuns[t].error = "OutputGuardrailTripwireTriggered"
                /\ toolRuns[t].text \in Texts
                /\ toolRuns[t].result = ToolError("OutputGuardrailTripwireTriggered")
                /\ toolRuns[t].result \notin Texts
    /\ toolRuns["market_eval_agent"].text \in Texts =>
          toolRuns["market_eval_agent"] =
              ToolReturned(toolRuns["market_eval_agent"].text)

C13_Witness ==
    /\ pc = "eval_done"
    /\ gstate["bias_in_product_eval"] = "trip"
    /\ toolRuns["product_eval_agent"].text = TextNames[1]
    /\ toolRuns["product_eval_agent"].error = "OutputGuardrailTripwireTriggered"
    /\ gstate["bias_in_team_eval"] = "pass"
    /\ toolRuns["team_eval_agent"].result = TextNames[2]
    /\ toolRuns["market_eval_agent"].result = TextNames[1]

\* The guardrail chains: the input and the output chain of the
\* orchestrator, and the output chain of each evaluator with guardrails.
DriverChains == {InputGuardrailNames, OrchestratorOutputGuardrails}

\* A guardrail of chain C ended the run of the orchestrator.
ChainAborted(C) == exception.guardrail \in C

Tripped(C) == \E g \in C : gstate[g] = "trip"

CouldNotEvaluate(C) == \E g \in C : gstate[g] \in Failures

\* C14 as stated: every guardrail reports the designated boolean field of
\* its own backing agent, and a chain is aborted if and only if one of its
\* guardrails reported true.
C14_AbortIffTriggered ==
    /\ \A g \in Guardrails : FieldRead(g) = OutputTypeField(BackingAgent(g))
    /\ \A C \in DriverChains : ChainAborted(C) <=> Tripped(C)
    /\ \A t \in LeafEvaluators :
          ToolChainAborted(t) <=> Tripped(OutputGuardrails(t))

\* C14 as amended: every guardrail reports the designated boolean field of
\* its own backing agent; a chain is aborted if and only if one of its
\* guardrails reported true or could not be evaluated, and it is aborted by
\* a tripwire, of the guardrail that reported true, if and only if one
\* reported true.
C14_AbortIffTriggeredOrFailed ==
    /\ \A g \in Guardrails : FieldRead(g) = OutputTypeField(BackingAgent(g))
    /\ \A C \in DriverChains :
          /\ ChainAborted(C) <=> (Tripped(C) \/ CouldNotEvaluate(C))
          /\ Tripped(C) <=>
                /\ ChainAborted(C)
                /\ exception.type \in {"InputGuardrailTripwireTriggered",
                                       "OutputGuardrailTripwireTriggered"}
          /\ (ChainAborted(C) /\ exception.type \notin Failures) =>
                gstate[exception.guardrail] = "trip"
    /\ (exception.type = "InputGuardrailTripwireTriggered")
          <=> Tripped(InputGuardrailNames)
    /\ (exception.type = "OutputGuardrailTripwireTriggered")
          <=> Tripped(OrchestratorOutputGuardrails)
    /\ \A t \in LeafEvaluators :
          /\ ToolChainAborted(t) <=>
                (Tripped(OutputGuardrails(t)) \/ CouldNotEvaluate(OutputGuardrails(t)))
          /\ Tripped(OutputGuardrails(t)) <=>
                toolRuns[t].error = "OutputGuardrailTripwireTriggered"

C14_Witness ==
    /\ gstate["bias_in_team_eval"] = "trip"
    /\ toolRuns["team_eval_agent"].error = "OutputGuardrailTripwireTriggered"
    /\ gstate["bias_in_product_eval"] \in Failures
    /\ ToolChainAborted("product_eval_agent")

\* What the orchestrator run of the request ended in, for the driver.
RunResultOfRequest ==
    IF "risk_finder_agent" \in invoked
    THEN RunReturns(final_output)
    ELSE RunRaises(exception.type)

\* One call of the driver ends in DriverOutcome of what its two runs ended
\* in, and its orchestrator run ends in one of RunResults.
DriverOutcomeAgrees ==
    Done => /\ RunResultOfRequest \in RunResults
            /\ outcome = DriverOutcome(RunResultOfRequest, riskStub)

\* C17: no call of the driver changes an agent or guardrail of the
\* registry, and whatever the interleaving of concurrent calls, each call
\* ends in what it ends in when run alone with the same inference responses.
C17_ConcurrentCallsDoNotInterfere ==
    /\ registry = InitialRegistry
    /\ \A k \in CallIds :
          calls[k].pc = "done" =>
              calls[k].outcome = DriverOutcome(calls[k].orchStub, calls[k].riskStub)

C17_Witness ==
    /\ calls[1].pc = "done"
    /\ calls[2].pc = "done"
    /\ calls[2].overlapped
    /\ calls[1].outcome.feedback = TextNames[1]
    /\ calls[2].outcome.feedback = TextNames[2]

====
